---- MODULE Spec2Model ----
(***************************************************************************)
(* A state-machine model of the two demo scripts of the repository:        *)
(*   src/autogen/autogen_conference_demo.py  (ConferencePlanningWorkflow)  *)
(*   src/crewai/crewai_demo.py               (travel planning crew)        *)
(* Each script is a linear pipeline of five blocking generation calls.     *)
(* Texts are modelled as strings, prompts as the sequence of the segments  *)
(* an f-string concatenates, files as the sequence of chunks written.      *)
(***************************************************************************)
EXTENDS Integers, Sequences, FiniteSets, TLC

VARIABLES
    demo,        \* which script the process runs: "autogen" or "crewai"
    configValid, \* what Config.validate_setup() / validate_config() answers
    params,      \* the run parameters (fixed once the process starts)
    pc,          \* position of the single thread of control
    outputs,     \* autogen: self.outputs, an insertion-ordered dict
    tasks,       \* crewai: the crew's task list, each with its context and output
    calls,       \* history: every generation call issued, with its response
    inflight,    \* indices (into calls) of the calls that have not returned yet
    error,       \* the exception propagating to / caught by the top-level caller
    console,     \* everything printed, one entry per print call
    files,       \* the file system: path -> sequence of chunks written
    now,         \* the wall clock, in ticks
    exitCode,    \* the exit code of the process once it has ended
    argv,        \* sys.argv[1:], the arguments of the command line
    runs         \* how many runs were started: starts of the script, or calls
                 \* of run() on one workflow instance

vars == <<argv, runs, demo, configValid, params, pc, outputs, tasks, calls,
          inflight, error, console, files, now, exitCode>>

-----------------------------------------------------------------------------
(* Bounds of the model *)

\* the clock stops ticking after MaxTime ticks
MaxTime == 2

\* clock ticks per second: strftime('%Y%m%d_%H%M%S') only shows whole seconds
TicksPerSecond == 2

\* the texts a generation call may return
Texts == {"t1", "t2"}

\* the messages of the exceptions the generation client may raise
ClientErrorMessages == {"Connection error.", "Rate limit reached"}

\* the script is started at most MaxRuns times
MaxRuns == 2

\* the destinations the travel demo may be started with
Destinations == {"Iceland", "FRANCE", "japan", "Norway"}

-----------------------------------------------------------------------------
(* Python values *)

\* Python's None (message.content is Optional[str])
None == "<None>"

\* no exception
NoError == [type |-> "", msg |-> "", stage |-> ""]

\* an exception object: its class, its message, and the stage name attached
\* to it (nothing in the code ever attaches one)
Exception(type, msg) == [type |-> type, msg |-> msg, stage |-> ""]

\* str(x), as print() and f-strings apply it
Str(x) == IF x = None THEN "None" ELSE x

\* "=" * 80
Eq80 == "================================================================================"

\* "-" * 80
Dash80 == "--------------------------------------------------------------------------------"

\* str.upper() on the names the scripts are run with
Upper(s) ==
    CASE s = "AI Horizons 2026" -> "AI HORIZONS 2026"
      [] s = "Iceland" -> "ICELAND"
      [] s = "FRANCE" -> "FRANCE"
      [] s = "Norway" -> "NORWAY"
      [] s = "japan" -> "JAPAN"
      [] OTHER -> s

\* str.lower() on the names the scripts are run with
Lower(s) ==
    CASE s = "Iceland" -> "iceland"
      [] s = "FRANCE" -> "france"
      [] s = "Norway" -> "norway"
      [] OTHER -> s

\* datetime.now().strftime('%Y%m%d_%H%M%S'): the clock at one-second resolution
Timestamp(t) == ToString(t \div TicksPerSecond)

\* str(datetime.now()): the clock at full resolution
FullTime(t) == ToString(t)

-----------------------------------------------------------------------------
(* The insertion-ordered dict self.outputs: a sequence of (key, value) pairs *)

Keys(d) == {d[i].key : i \in 1..Len(d)}

Has(d, k) == k \in Keys(d)

\* d[k] for a key that is present
Get(d, k) == d[CHOOSE i \in 1..Len(d) : d[i].key = k].value

\* d[k] = v: replaces the value in place when the key exists, appends otherwise
DictSet(d, k, v) ==
    IF Has(d, k)
    THEN [i \in 1..Len(d) |-> IF d[i].key = k THEN [key |-> k, value |-> v] ELSE d[i]]
    ELSE Append(d, [key |-> k, value |-> v])

\* list(d.keys())
KeyOrder(d) == [i \in 1..Len(d) |-> d[i].key]

-----------------------------------------------------------------------------
(* autogen: the conference planning workflow *)

\* __main__: CONFERENCE_NAME, CONFERENCE_TYPE, DURATION
AutogenParams ==
    [conference_name |-> "AI Horizons 2026",
     conference_type |-> "AI/ML technology",
     duration |-> "3 days"]

\* crewai __main__: kwargs = {...}, the defaults
DefaultKwargs ==
    [destination |-> "Iceland",
     trip_duration |-> "5 days",
     trip_dates |-> "January 15-20, 2026",
     departure_city |-> "New York",
     travelers |-> 2,
     budget_preference |-> "mid-range"]

\* the decimal strings int() is applied to
IsInt(s) == s \in {"2", "4"}

\* int(s) for a decimal string (the builtin int)
ParseInt(s) == CASE s = "2" -> 2 [] s = "4" -> 4

\* crewai __main__: int(sys.argv[5]) raises ValueError
ArgsRaise(a) == Len(a) >= 5 /\ ~IsInt(a[5])

\* mutant of ParseArgs: the arguments are taken in the order of main's parameters
ParseArgs_inorder(a) ==
    LET k1 == IF Len(a) >= 1 THEN [DefaultKwargs EXCEPT !.destination = a[1]] ELSE DefaultKwargs
        k2 == IF Len(a) >= 2 THEN [k1 EXCEPT !.trip_duration = a[2]] ELSE k1
        k3 == IF Len(a) >= 3 THEN [k2 EXCEPT !.trip_dates = a[3]] ELSE k2
        k4 == IF Len(a) >= 4 THEN [k3 EXCEPT !.departure_city = a[4]] ELSE k3
        k5 == IF Len(a) >= 5 /\ IsInt(a[5]) THEN [k4 EXCEPT !.travelers = ParseInt(a[5])] ELSE k4
        k6 == IF Len(a) >= 6 /\ IsInt(a[5]) THEN [k5 EXCEPT !.budget_preference = a[6]] ELSE k5
    IN k6

\* crewai __main__: the kwargs after the six "if len(sys.argv) > n" statements
\* (a[n] is sys.argv[n]); when int() raises, the assignments before it stay
ParseArgs(a) ==
    LET k1 == IF Len(a) >= 1 THEN [DefaultKwargs EXCEPT !.destination = a[1]] ELSE DefaultKwargs
        k2 == IF Len(a) >= 2 THEN [k1 EXCEPT !.trip_duration = a[2]] ELSE k1
        k3 == IF Len(a) >= 3 THEN [k2 EXCEPT !.departure_city = a[3]] ELSE k2
        k4 == IF Len(a) >= 4 THEN [k3 EXCEPT !.trip_dates = a[4]] ELSE k3
        k5 == IF Len(a) >= 5 /\ IsInt(a[5]) THEN [k4 EXCEPT !.travelers = ParseInt(a[5])] ELSE k4
        k6 == IF Len(a) >= 6 /\ IsInt(a[5]) THEN [k5 EXCEPT !.budget_preference = a[6]] ELSE k5
    IN k6

\* the command lines the scripts are started with: for the travel demo every
\* prefix of a full argument list, for the conference demo none or one argument
FullArgvs ==
    {<<d, "7 days", "Los Angeles", "March 1-8, 2026", n, "luxury">> :
        d \in Destinations, n \in {"4", "four"}}

Argvs(script) ==
    IF script = "autogen" THEN {<<>>, <<"PyCon 2027">>}
    ELSE {SubSeq(a, 1, k) : a \in FullArgvs, k \in 0..6}

\* mutant of RunOrder: run() calls phase_schedule before phase_speakers
RunOrder_early == <<"theme", "schedule", "speakers", "logistics", "marketing">>

\* mutant of RunOrder: run() calls phase_marketing before phase_logistics
RunOrder_swapped == <<"theme", "speakers", "schedule", "marketing", "logistics">>

\* the order in which run() calls the phase methods
RunOrder == <<"theme", "speakers", "schedule", "logistics", "marketing">>

\* print_summary: sections = [(title, key), ...]
Sections ==
    << [title |-> "THEME & VISION", key |-> "theme"],
       [title |-> "SPEAKERS & TOPICS", key |-> "speakers"],
       [title |-> "CONFERENCE SCHEDULE", key |-> "schedule"],
       [title |-> "LOGISTICS PLAN", key |-> "logistics"],
       [title |-> "MARKETING STRATEGY", key |-> "marketing"] >>

\* the banner each phase prints first
PhaseBanner(s) ==
    CASE s = "theme" -> "PHASE 1: CONFERENCE THEME & VISION"
      [] s = "speakers" -> "PHASE 2: SPEAKER & TOPIC CURATION"
      [] s = "schedule" -> "PHASE 3: DETAILED SCHEDULE CREATION"
      [] s = "logistics" -> "PHASE 4: LOGISTICS PLANNING"
      [] s = "marketing" -> "PHASE 5: MARKETING STRATEGY"

\* the line printed before a phase's output
AgentOutputBanner(s) ==
    CASE s = "theme" -> "\n[ThemeAgent Output]"
      [] s = "speakers" -> "\n[SpeakerAgent Output]"
      [] s = "schedule" -> "\n[ScheduleAgent Output]"
      [] s = "logistics" -> "\n[LogisticsAgent Output]"
      [] s = "marketing" -> "\n[MarketingAgent Output]"

\* the "[...Agent is ...]" progress line of each phase
AgentProgress(s) ==
    CASE s = "theme" -> "[ThemeAgent is defining the conference vision...]"
      [] s = "speakers" -> "[SpeakerAgent is identifying speakers and sessions...]"
      [] s = "schedule" -> "[ScheduleAgent is creating the conference agenda...]"
      [] s = "logistics" -> "[LogisticsAgent is planning venue and logistics...]"
      [] s = "marketing" -> "[MarketingAgent is creating promotional strategy...]"

\* the keys of self.outputs each phase reads while building user_message,
\* in the order the f-string evaluates them
PhaseReads(s) ==
    CASE s = "theme" -> <<>>
      [] s = "speakers" -> <<"theme">>
      [] s = "schedule" -> <<"theme", "speakers">>
      [] s = "logistics" -> <<"schedule", "theme">>
      [] s = "marketing" -> <<"theme", "schedule">>

\* system_prompt of each phase: the segments of the f-string
SystemPrompt(s, p) ==
    CASE s = "theme" ->
            <<"You are a conference theme strategist specializing in ",
              p.conference_type, " events. ...">>
      [] s = "speakers" ->
            <<"You are a speaker curator for ", p.conference_type, " conferences. ...">>
      [] s = "schedule" ->
            <<"You are a conference schedule planner. ... create a detailed ",
              p.duration, " agenda: ...">>
      [] s = "logistics" -> <<"You are a conference logistics coordinator. ...">>
      [] s = "marketing" -> <<"You are a conference marketing strategist. ...">>

\* mutant of Embed: the prompt carries a placeholder instead of the output
Embed_placeholder(d, k) == "{" \o k \o "}"

\* {self.outputs['key']} inside an f-string: the stored output, through str()
Embed(d, k) == Str(Get(d, k))

\* user_message of each phase: the segments of the f-string
UserMessage(s, d, p) ==
    CASE s = "theme" ->
            <<"Create a compelling theme and vision for '", p.conference_name,
              "', a ", p.duration, " ", p.conference_type, " conference.">>
      [] s = "speakers" ->
            <<"Conference Theme and Vision:\n", Embed(d, "theme"),
              "\n\nNow identify ideal speaker profiles and session topics for this ",
              p.duration, " conference.">>
      [] s = "schedule" ->
            <<"Conference Theme:\n", Embed(d, "theme"),
              "\n\nSpeaker & Session Information:\n", Embed(d, "speakers"),
              "\n\nCreate a detailed ", p.duration, " conference schedule.">>
      [] s = "logistics" ->
            <<"Conference Schedule:\n", Embed(d, "schedule"),
              "\n\nConference Theme & Audience:\n", Embed(d, "theme"),
              "\n\nPlan the logistics for this conference.">>
      [] s = "marketing" ->
            <<"Conference Details:\n\nTheme & Vision:\n", Embed(d, "theme"),
              "\n\nSchedule Overview:\n", Embed(d, "schedule"),
              "\n\nCreate a comprehensive marketing strategy for this conference.">>

\* mutant of AfterPhase: run() goes from phase_schedule straight to phase_marketing
AfterPhase_skip(s) ==
    LET i == CHOOSE j \in 1..Len(RunOrder) : RunOrder[j] = s
    IN IF s = "schedule" THEN "marketing"
       ELSE IF i < Len(RunOrder) THEN RunOrder[i + 1] ELSE "print_summary"

\* where run() goes after phase s has returned
AfterPhase(s) ==
    LET i == CHOOSE j \in 1..Len(RunOrder) : RunOrder[j] = s
    IN IF i < Len(RunOrder) THEN RunOrder[i + 1] ELSE "print_summary"

-----------------------------------------------------------------------------
(* The generation client: self.client.chat.completions.create(...) *)

\* what a call can come back with: a response whose first choice carries a
\* text or None, a response with no choices, or an exception
Responses ==
    [kind : {"ok"}, content : Texts \cup {None}, msg : {""}]
        \cup [kind : {"empty"}, content : {None}, msg : {""}]
        \cup [kind : {"raise"}, content : {None}, msg : ClientErrorMessages]

Pending == [kind |-> "pending", content |-> None, msg |-> ""]

\* the exception a response makes the try block raise: the client's own, or
\* the IndexError of response.choices[0] on an empty list
RaisedBy(r) ==
    IF r.kind = "raise"
    THEN Exception("APIError", r.msg)
    ELSE Exception("IndexError", "list index out of range")

\* mutant of Reraise: the handler raises a new exception of its own
Reraise_wrapped(e, s) == Exception("RuntimeError", "phase failed")

\* except Exception as e: print(...); raise  -- the exception leaves unchanged
Reraise(e, s) == e

\* mutant of OnPhaseError: the handler prints the error and forgets to
\* re-raise, so run() goes on with the next phase
OnPhaseError_swallow(s) == AfterPhase(s)

\* mutant of OnPhaseError: the handler sends control back to the start of
\* the same phase, which issues its call again
OnPhaseError_retry(s) == s

\* where control goes when the try block of phase s raised: the bare `raise`
\* leaves the phase and run()
OnPhaseError(s) == "run_raised"

\* mutant of InitialOutputs: __init__ creates the entry of every stage
InitialOutputs_prefilled ==
    [i \in 1..Len(RunOrder) |-> [key |-> RunOrder[i], value |-> ""]]

\* __init__: self.outputs = {}
InitialOutputs == <<>>

\* mutant of StoreOutput: phase_speakers stores under the key of phase_theme
StoreOutput_wrongkey(d, s, content) ==
    DictSet(d, IF s = "speakers" THEN "theme" ELSE s, content)

\* self.outputs[key] = response.choices[0].message.content
StoreOutput(d, s, content) == DictSet(d, s, content)

\* mutant of ValidationFailed: the answer of the validation is ignored
ValidationFailed_ignored(valid) == FALSE

\* if not Config.validate_setup(): / if not validate_config():
ValidationFailed(valid) == ~valid

-----------------------------------------------------------------------------
Init ==
    /\ demo \in {"autogen", "crewai"}
    /\ configValid \in BOOLEAN
    /\ argv \in Argvs(demo)
    /\ runs = 1
    /\ params = (IF demo = "autogen" THEN AutogenParams ELSE ParseArgs(argv))
    /\ pc = "main"
    /\ outputs = <<>>
    /\ tasks = <<>>
    /\ calls = <<>>
    /\ inflight = {}
    /\ error = NoError
    /\ console = <<>>
    /\ files = <<>>
    /\ now = 0
    /\ exitCode = -1

\* time passes while the process is alive
Tick ==
    /\ pc # "exited"
    /\ now < MaxTime
    /\ now' = now + 1
    /\ UNCHANGED <<argv, runs, demo, configValid, params, pc, outputs, tasks, calls,
                   inflight, error, console, files, exitCode>>

\* ConferencePlanningWorkflow.__init__, called from __main__
Workflow_init ==
    /\ demo = "autogen" /\ pc = "main"
    /\ IF ValidationFailed(configValid)
       THEN /\ console' = console \o <<"ERROR: Configuration validation failed!">>
            /\ pc' = "exited"
            /\ exitCode' = 1
            /\ UNCHANGED outputs
       ELSE /\ outputs' = InitialOutputs
            /\ pc' = "run"
            /\ UNCHANGED <<console, exitCode>>
    /\ UNCHANGED <<argv, runs, demo, configValid, params, tasks, calls, inflight, error,
                   files, now>>

\* run(): the header it prints before the first phase
run ==
    /\ demo = "autogen" /\ pc = "run"
    /\ console' = console \o
         <<"\n" \o Eq80,
           "CONFERENCE PLANNING WORKFLOW - " \o Upper(params.conference_name),
           Eq80,
           "Conference Type: " \o params.conference_type,
           "Duration: " \o params.duration,
           "Start Time: " \o Timestamp(now),
           "Model: model\n">>
    /\ pc' = RunOrder[1]
    /\ UNCHANGED <<argv, runs, demo, configValid, params, outputs, tasks, calls, inflight,
                   error, files, now, exitCode>>

\* a phase method up to the point where its generation call is issued
PhaseCall(s) ==
    /\ demo = "autogen" /\ pc = s /\ inflight = {}
    /\ LET reads == PhaseReads(s)
           banner == <<"\n" \o Eq80, PhaseBanner(s), Eq80, AgentProgress(s)>>
           missing == {i \in 1..Len(reads) : ~Has(outputs, reads[i])}
       IN IF missing # {}
          THEN \* self.outputs[key] raises KeyError, outside the try block
               /\ error' = Exception("KeyError",
                                     reads[CHOOSE i \in missing : \A j \in missing : i <= j])
               /\ pc' = "run_raised"
               /\ console' = console \o banner
               /\ UNCHANGED <<calls, inflight>>
          ELSE /\ calls' = Append(calls,
                      [stage |-> s,
                       system |-> SystemPrompt(s, params),
                       user |-> UserMessage(s, outputs, params),
                       response |-> Pending])
               /\ inflight' = {Len(calls) + 1}
               /\ console' = console \o banner
               /\ UNCHANGED <<pc, error>>
    /\ UNCHANGED <<argv, runs, demo, configValid, params, outputs, tasks, files, now, exitCode>>

\* the rest of a phase method: the call returns or raises
PhaseReturn(s) ==
    /\ demo = "autogen" /\ pc = s /\ inflight # {}
    /\ \E r \in Responses :
         /\ calls' = [calls EXCEPT ![Len(calls)].response = r]
         /\ inflight' = {}
         /\ IF r.kind = "ok"
            THEN /\ outputs' = StoreOutput(outputs, s, r.content)
                 /\ console' = console \o <<AgentOutputBanner(s), Str(r.content)>>
                 /\ pc' = AfterPhase(s)
                 /\ UNCHANGED error
            ELSE /\ console' = console \o <<"Error: " \o RaisedBy(r).msg>>
                 /\ error' = Reraise(RaisedBy(r), s)
                 /\ pc' = OnPhaseError(s)
                 /\ UNCHANGED outputs
    /\ UNCHANGED <<argv, runs, demo, configValid, params, tasks, files, now, exitCode>>

phase_theme == PhaseCall("theme") \/ PhaseReturn("theme")

phase_speakers == PhaseCall("speakers") \/ PhaseReturn("speakers")

phase_schedule == PhaseCall("schedule") \/ PhaseReturn("schedule")

phase_logistics == PhaseCall("logistics") \/ PhaseReturn("logistics")

phase_marketing == PhaseCall("marketing") \/ PhaseReturn("marketing")

-----------------------------------------------------------------------------
(* autogen: print_summary and the top-level handler *)

\* the smallest element of a non-empty set of integers, 0 for the empty set
First(S) == IF S = {} THEN 0 ELSE CHOOSE i \in S : \A j \in S : i <= j

\* the file system with `content` written to `path` (open(path, 'w') truncates)
WriteFile(fs, path, content) ==
    [p \in (DOMAIN fs) \cup {path} |-> IF p = path THEN content ELSE fs[p]]

\* print_summary: what it prints before the sections
SummaryHeader(p) ==
    <<"\n" \o Eq80, "CONFERENCE PLANNING SUMMARY", Eq80,
      "\nConference: " \o p.conference_name \o "\nType: " \o p.conference_type
          \o "\nDuration: " \o p.duration \o "\n\nThis workflow demonstrated a 5-agent collaboration: ...\n",
      "\n" \o Eq80, "FULL CONFERENCE PLAN - ALL COMPONENTS", Eq80>>

\* the three prints that head section i on the console
SectionHeadPrints(i) == <<"\n" \o Dash80, Sections[i].title, Dash80>>

\* the console loop over the first n sections: heading, then print(self.outputs[key])
SectionPrints(d, n) ==
    [i \in 1..(4 * n) |->
        LET sec == ((i - 1) \div 4) + 1
            k == (i - 1) % 4
        IN IF k < 3 THEN SectionHeadPrints(sec)[k + 1]
           ELSE Str(Get(d, Sections[sec].key))]

\* output_file = f"conference_plan_{timestamp}.txt"
OutputFile(t) == "conference_plan_" \o Timestamp(t) \o ".txt"

\* mutant of FileHeader: the "Generated:" line shows the clock at full resolution
FileHeader_full(p, t) ==
    <<Eq80 \o "\n",
      "CONFERENCE PLANNING - " \o Upper(p.conference_name) \o "\n",
      Eq80 \o "\n",
      "Generated: " \o FullTime(t) \o "\n",
      "Model: model\n",
      "Type: " \o p.conference_type \o "\n",
      "Duration: " \o p.duration \o "\n\n">>

\* the header block written to the file
FileHeader(p, t) ==
    <<Eq80 \o "\n",
      "CONFERENCE PLANNING - " \o Upper(p.conference_name) \o "\n",
      Eq80 \o "\n",
      "Generated: " \o Timestamp(t) \o "\n",
      "Model: model\n",
      "Type: " \o p.conference_type \o "\n",
      "Duration: " \o p.duration \o "\n\n">>

\* mutant of SectionHeadWrites: the heading is written without its title
SectionHeadWrites_untitled(i) == <<"\n" \o Dash80 \o "\n", "\n", Dash80 \o "\n">>

\* the three writes that head section i in the file
SectionHeadWrites(i) == <<"\n" \o Dash80 \o "\n", Sections[i].title \o "\n", Dash80 \o "\n">>

\* the file loop over the first n sections: heading, then
\* f.write(self.outputs[key] + "\n"), which needs a str
SectionWrites(d, n) ==
    [i \in 1..(4 * n) |->
        LET sec == ((i - 1) \div 4) + 1
            k == (i - 1) % 4
        IN IF k < 3 THEN SectionHeadWrites(sec)[k + 1]
           ELSE Get(d, Sections[sec].key) \o "\n"]

\* print_summary(), called last by run()
print_summary ==
    /\ demo = "autogen" /\ pc = "print_summary"
    /\ LET n == Len(Sections)
           missing == First({i \in 1..n : ~Has(outputs, Sections[i].key)})
       IN IF missing # 0
          THEN \* print(self.outputs[key]) raises KeyError
               /\ console' = console \o SummaryHeader(params)
                                \o SectionPrints(outputs, missing - 1)
                                \o SectionHeadPrints(missing)
               /\ error' = Exception("KeyError", Sections[missing].key)
               /\ pc' = "run_raised"
               /\ UNCHANGED files
          ELSE \E io \in {"ok", "denied"} :
               LET printed == console \o SummaryHeader(params) \o SectionPrints(outputs, n)
                   path == OutputFile(now)
                   bad == First({i \in 1..n : Get(outputs, Sections[i].key) = None})
               IN IF io = "denied"
                  THEN \* open(output_file, 'w') raises OSError
                       /\ console' = printed
                       /\ error' = Exception("OSError", "Permission denied")
                       /\ pc' = "run_raised"
                       /\ UNCHANGED files
                  ELSE IF bad # 0
                  THEN \* None + "\n" raises TypeError; what was written stays
                       /\ console' = printed
                       /\ files' = WriteFile(files, path,
                                       FileHeader(params, now)
                                         \o SectionWrites(outputs, bad - 1)
                                         \o SectionHeadWrites(bad))
                       /\ error' = Exception("TypeError", "unsupported operand type(s) for +")
                       /\ pc' = "run_raised"
                  ELSE /\ files' = WriteFile(files, path,
                                       FileHeader(params, now) \o SectionWrites(outputs, n))
                       /\ console' = printed \o
                            <<"\nFull conference plan saved to: " \o path,
                              "\nEnd Time: " \o Timestamp(now), Eq80>>
                       /\ pc' = "run_returned"
                       /\ UNCHANGED error
    /\ UNCHANGED <<argv, runs, demo, configValid, params, outputs, tasks, calls, inflight,
                   now, exitCode>>

\* __main__: workflow.run() returned
main_success ==
    /\ demo = "autogen" /\ pc = "run_returned"
    /\ console' = console \o
         <<"\nConference planning workflow completed successfully!",
           "\nTIP: Edit the CONFERENCE_NAME, CONFERENCE_TYPE, and DURATION",
           "    variables in this file to plan different types of conferences!">>
    /\ pc' = "exited"
    /\ exitCode' = 0
    /\ UNCHANGED <<argv, runs, demo, configValid, params, outputs, tasks, calls, inflight,
                   error, files, now>>

\* __main__: except Exception as e -- prints and lets the script end
main_except ==
    /\ demo = "autogen" /\ pc = "run_raised"
    /\ console' = console \o
         <<"\nError during workflow execution: " \o error.msg,
           "\nTroubleshooting:",
           "1. Verify your API key is set in .env",
           "2. Check your API key has sufficient credits",
           "3. Verify internet connection">>
    /\ pc' = "exited"
    /\ exitCode' = 0
    /\ UNCHANGED <<argv, runs, demo, configValid, params, outputs, tasks, calls, inflight,
                   error, files, now>>

-----------------------------------------------------------------------------
(* crewai: the travel planning crew *)

\* create_hotel_agent: hotel_location
HotelAgentLocation(destination) ==
    IF Lower(destination) = "iceland" THEN "Reykjavik"
    ELSE IF Lower(destination) = "france" THEN "Paris"
    ELSE IF Lower(destination) = "japan" THEN "Tokyo"
    ELSE destination

\* mutant of HotelTaskLocation: the destination is compared as it was typed
HotelTaskLocation_exact(destination) ==
    IF destination = "iceland" THEN "Reykjavik"
    ELSE IF destination = "france" THEN "Paris"
    ELSE IF destination = "japan" THEN "Tokyo"
    ELSE destination

\* create_hotel_task: hotel_location
HotelTaskLocation(destination) ==
    IF Lower(destination) = "iceland" THEN "Reykjavik"
    ELSE IF Lower(destination) = "france" THEN "Paris"
    ELSE IF Lower(destination) = "japan" THEN "Tokyo"
    ELSE destination

\* the goal each create_*_agent gives its agent: the segments of the f-string
AgentGoal(name, p) ==
    CASE name = "flight" ->
            <<"Research and recommend the best flight options for the ",
              p.destination, " trip (", p.trip_dates, "), ...">>
      [] name = "hotel" ->
            <<"Suggest top-rated hotels in ", HotelAgentLocation(p.destination),
              " for the ", p.destination, " trip (", p.trip_dates, "), ...">>
      [] name = "itinerary" ->
            <<"Create a detailed day-by-day travel plan ... that maximize the ",
              p.destination, " experience in ", p.trip_duration, ". ...">>
      [] name = "budget" ->
            <<"Calculate total trip costs for ", p.destination, " ...">>
      [] name = "marketing" ->
            <<"Create a compelling marketing summary for the ", p.destination,
              " trip package ...">>

\* the description each create_*_task gives its task: the segments of the f-string
TaskDescription(name, p) ==
    CASE name = "flight" ->
            <<"Research and compile a list of REAL flight options from ",
              p.departure_city, " to ", p.destination, " for the trip (",
              p.trip_dates, "). ...">>
      [] name = "hotel" ->
            <<"Based on the trip dates (", p.trip_dates,
              "), find and recommend the top 3-4 REAL hotels in ",
              HotelTaskLocation(p.destination), ". ...">>
      [] name = "itinerary" ->
            <<"Create a detailed ", p.trip_duration, " itinerary for ",
              p.destination, " (", p.trip_dates, ") ...">>
      [] name = "budget" ->
            <<"Based on the REAL flight options, hotel recommendations, and itinerary ",
              "... calculate a comprehensive budget for the ", p.trip_duration, " ",
              p.destination, " trip ...">>
      [] name = "marketing" ->
            <<"Create a compelling marketing summary for the ", p.trip_duration, " ",
              p.destination, " trip package ...">>

\* Task(...): only create_marketing_task passes context, and passes []
TaskContext(name) ==
    IF name = "marketing"
    THEN [specified |-> TRUE, tasks |-> <<>>]
    ELSE [specified |-> FALSE, tasks |-> <<>>]

\* a task as create_*_task builds it
CreateTask(name, p) ==
    [name |-> name,
     goal |-> AgentGoal(name, p),
     description |-> TaskDescription(name, p),
     context |-> TaskContext(name),
     output |-> None]

\* Crew(tasks=[...]): the task list handed to the crew
CrewTasks == <<"flight", "hotel", "itinerary", "budget", "marketing">>

\* what an agent's run of a task can come back with: a text, or an exception
CrewResponses ==
    [kind : {"ok"}, content : Texts, msg : {""}]
        \cup [kind : {"raise"}, content : {None}, msg : ClientErrorMessages]

\* mutant of OnKickoffError: the code that prints and saves the result is
\* reached although crew.kickoff raised
OnKickoffError_report == "report"

\* where control goes when crew.kickoff raised: out of the try block, to
\* the except clause, past the code that prints and saves the result
OnKickoffError == "crew_raised"

\* output_filename = f"crewai_output_{destination.lower()}.txt"
CrewOutputFile(p) == "crewai_output_" \o Lower(p.destination) \o ".txt"

\* the chunks main() writes to the output file
CrewReport(p, result, t) ==
    <<Eq80 \o "\n",
      "CrewAI Multi-Agent Travel Planning System - Real API Execution Report\n",
      "Planning a " \o p.trip_duration \o " Trip to " \o p.destination \o "\n",
      Eq80 \o "\n\n",
      "Trip Details:\n",
      "  Destination: " \o p.destination \o "\n",
      "  Duration: " \o p.trip_duration \o "\n",
      "  Dates: " \o p.trip_dates \o "\n",
      "  Departure: " \o p.departure_city \o "\n",
      "  Travelers: " \o ToString(p.travelers) \o "\n",
      "  Budget Preference: " \o p.budget_preference \o "\n\n",
      "Execution Time: " \o FullTime(t) \o "\n",
      "API Version: REAL API CALLS (OpenAI GPT-4)\n",
      "Data Source: Web research via OpenAI\n\n",
      "IMPORTANT NOTES:\n",
      "- All flight prices, hotel costs, and attraction information is based on real data\n",
      "- Prices are current as of the date this was run\n",
      "- Hotel availability and prices may vary by booking date\n",
      "- Weather conditions and attraction hours should be verified before travel\n\n",
      "FINAL TRAVEL PLAN REPORT:\n",
      Dash80 \o "\n",
      Str(result),
      "\n" \o Dash80 \o "\n">>

\* __main__ and main() up to crew.kickoff: arguments, validation, agents,
\* tasks, crew
crew_main ==
    /\ demo = "crewai" /\ pc = "main"
    /\ IF ArgsRaise(argv)
       THEN \* the ValueError is not caught: traceback, exit code 1
            /\ error' = Exception("ValueError", "invalid literal for int() with base 10")
            /\ pc' = "exited"
            /\ exitCode' = 1
            /\ UNCHANGED <<console, tasks>>
       ELSE IF ValidationFailed(configValid)
       THEN /\ console' = console \o
                 <<Eq80, "CrewAI Multi-Agent Travel Planning System (REAL API VERSION)",
                   "Validating configuration...",
                   "Configuration validation failed. Please set up your .env file.">>
            /\ pc' = "exited"
            /\ exitCode' = 1
            /\ UNCHANGED <<tasks, error>>
       ELSE /\ console' = console \o
                 <<Eq80, "CrewAI Multi-Agent Travel Planning System (REAL API VERSION)",
                   "Validating configuration...",
                   "Configuration validated successfully!",
                   "Tasks created successfully!",
                   "Starting Crew Execution with REAL API Calls...">>
            /\ tasks' = [i \in 1..Len(CrewTasks) |-> CreateTask(CrewTasks[i], params)]
            /\ pc' = "kickoff"
            /\ UNCHANGED <<exitCode, error>>
    /\ UNCHANGED <<argv, runs, demo, configValid, params, outputs, calls, inflight,
                   files, now>>

\* crew.kickoff, process="sequential": the next task of the list is handed
\* to its agent
KickoffCall ==
    /\ demo = "crewai" /\ pc = "kickoff" /\ inflight = {}
    /\ LET i == First({j \in 1..Len(tasks) : tasks[j].output = None})
       IN calls' = Append(calls,
              [stage |-> tasks[i].name,
               system |-> tasks[i].goal,
               user |-> tasks[i].description,
               response |-> Pending])
    /\ inflight' = {Len(calls) + 1}
    /\ UNCHANGED <<argv, runs, demo, configValid, params, pc, outputs, tasks, error,
                   console, files, now, exitCode>>

\* crew.kickoff: the agent's run of the task returns or raises
KickoffReturn ==
    /\ demo = "crewai" /\ pc = "kickoff" /\ inflight # {}
    /\ \E r \in CrewResponses :
         LET i == First({j \in 1..Len(tasks) : tasks[j].output = None})
         IN /\ calls' = [calls EXCEPT ![Len(calls)].response = r]
            /\ inflight' = {}
            /\ IF r.kind = "ok"
               THEN /\ tasks' = [tasks EXCEPT ![i].output = r.content]
                    /\ pc' = IF i = Len(tasks) THEN "report" ELSE "kickoff"
                    /\ UNCHANGED error
               ELSE /\ error' = Exception("APIError", r.msg)
                    /\ pc' = OnKickoffError
                    /\ UNCHANGED tasks
    /\ UNCHANGED <<argv, runs, demo, configValid, params, outputs, console, files, now, exitCode>>

kickoff == KickoffCall \/ KickoffReturn

\* main() after crew.kickoff returned: print the result and save it
crew_report ==
    /\ demo = "crewai" /\ pc = "report"
    /\ \E io \in {"ok", "denied"} :
         LET result == tasks[Len(tasks)].output
             printed == console \o
                 <<"Crew Execution Completed Successfully!",
                   "FINAL TRAVEL PLAN REPORT FOR " \o Upper(params.destination)
                       \o " (Based on Real API Data):",
                   Dash80, Str(result), Dash80>>
         IN IF io = "denied"
            THEN \* open(output_path, "w") raises OSError, inside the try block
                 /\ console' = printed
                 /\ error' = Exception("OSError", "Permission denied")
                 /\ pc' = "crew_raised"
                 /\ UNCHANGED <<files, exitCode>>
            ELSE /\ files' = WriteFile(files, CrewOutputFile(params),
                                       CrewReport(params, result, now))
                 /\ console' = printed \o <<"\nOutput saved to " \o CrewOutputFile(params)>>
                 /\ pc' = "exited"
                 /\ exitCode' = 0
                 /\ UNCHANGED error
    /\ UNCHANGED <<argv, runs, demo, configValid, params, outputs, tasks, calls, inflight, now>>

\* main(): except Exception as e -- prints, and main() returns normally
crew_except ==
    /\ demo = "crewai" /\ pc = "crew_raised"
    /\ console' = console \o
         <<"\nError during crew execution: " \o error.msg, "\nTroubleshooting:">>
    /\ pc' = "exited"
    /\ exitCode' = 0
    /\ UNCHANGED <<argv, runs, demo, configValid, params, outputs, tasks, calls, inflight,
                   error, files, now>>

-----------------------------------------------------------------------------
Next ==
    \/ Tick
    \/ Workflow_init
    \/ run
    \/ phase_theme
    \/ phase_speakers
    \/ phase_schedule
    \/ phase_logistics
    \/ phase_marketing
    \/ print_summary
    \/ main_success
    \/ main_except
    \/ crew_main
    \/ kickoff
    \/ crew_report
    \/ crew_except

Spec == Init /\ [][Next]_vars

\* the script is started again with the same command line, in the same
\* directory: a new process, the files and the clock stay
Restart ==
    /\ pc = "exited" /\ runs < MaxRuns
    /\ runs' = runs + 1
    /\ pc' = "main"
    /\ outputs' = <<>>
    /\ tasks' = <<>>
    /\ calls' = <<>>
    /\ inflight' = {}
    /\ error' = NoError
    /\ console' = <<>>
    /\ exitCode' = -1
    /\ UNCHANGED <<argv, demo, configValid, params, files, now>>

\* the steps of the scripts themselves (everything but the clock)
Program ==
    \/ Workflow_init \/ run
    \/ phase_theme \/ phase_speakers \/ phase_schedule \/ phase_logistics
    \/ phase_marketing
    \/ print_summary \/ main_success \/ main_except
    \/ crew_main \/ kickoff \/ crew_report \/ crew_except

\* a script keeps running until it ends, and every generation call comes
\* back, with a response or with an exception
FairSpec == Spec /\ WF_vars(Program)

\* mutant of OutputsAtRun: run() starts with an empty mapping
OutputsAtRun_reset(d) == <<>>

\* self.outputs when run() is entered: run() has no statement that assigns
\* or clears it, only __init__ does
OutputsAtRun(d) == d

\* a caller that keeps the workflow instance calls run() again, after run()
\* returned or raised. calls and console record the run in progress.
run_again ==
    /\ demo = "autogen" /\ pc \in {"run_returned", "run_raised"}
    /\ runs < MaxRuns
    /\ runs' = runs + 1
    /\ pc' = "run"
    /\ outputs' = OutputsAtRun(outputs)
    /\ error' = NoError
    /\ calls' = <<>>
    /\ console' = <<>>
    /\ UNCHANGED <<argv, demo, configValid, params, tasks, inflight, files, now,
                   exitCode>>

\* one workflow instance, constructed once, on which run() is called up to
\* MaxRuns times
InitReuse == Init /\ demo = "autogen" /\ argv = <<>>

NextReuse ==
    \/ Workflow_init
    \/ run
    \/ phase_theme
    \/ phase_speakers
    \/ phase_schedule
    \/ phase_logistics
    \/ phase_marketing
    \/ print_summary
    \/ run_again

SpecReuse == InitReuse /\ [][NextReuse]_vars

\* the script started up to MaxRuns times, one run after the other
SpecRuns == Init /\ [][Next \/ Restart]_vars

-----------------------------------------------------------------------------
(* Vocabulary of the properties *)

\* the pipeline order the specification fixes for each demo
PipelineOrder ==
    IF demo = "autogen"
    THEN <<"theme", "speakers", "schedule", "logistics", "marketing">>
    ELSE <<"flight", "hotel", "itinerary", "budget", "marketing">>

\* the call with index i has come back with a text (or None) as its content
Succeeded(i) == calls[i].response.kind = "ok"

\* the call with index i has come back failed: the try block raised
Failed(i) == calls[i].response.kind \in {"raise", "empty"}

\* the output of pipeline stage j has been stored
Stored(j) ==
    IF demo = "autogen"
    THEN Has(outputs, PipelineOrder[j])
    ELSE j <= Len(tasks) /\ tasks[j].name = PipelineOrder[j] /\ tasks[j].output # None

\* the run has completed: every stage ran and the summary was written
Completed ==
    \/ pc = "run_returned"
    \/ pc = "exited" /\ exitCode = 0 /\ error = NoError

\* the run has failed: an exception has left run() / kickoff
RunFailed == error # NoError

\* text occurs as one of the segments of a request
Contains(msg, text) == \E k \in 1..Len(msg) : msg[k] = text

-----------------------------------------------------------------------------
(* C1 *)

\* C1: the generation calls are issued strictly in the fixed pipeline order,
\* none skipped or reordered, at most one in flight at a time, and the call
\* of stage i only once the output of stage i-1 has been stored.
C1_PipelineOrder ==
    /\ Cardinality(inflight) <= 1
    /\ inflight \subseteq {Len(calls)}
    /\ Len(calls) <= Len(PipelineOrder)
    /\ \A i \in 1..Len(calls) :
         /\ calls[i].stage = PipelineOrder[i]
         /\ i > 1 => Succeeded(i - 1) /\ Stored(i - 1)

\* C1 witness: the fifth call of the conference workflow is in flight
C1_Witness ==
    /\ demo = "autogen" /\ Len(calls) = 5 /\ inflight = {5}
    /\ calls[5].stage = "marketing"

-----------------------------------------------------------------------------
(* C2 *)

\* C2 (conference workflow): once the generation call of a stage has failed,
\* no call of a later stage is issued and the run has failed at once.
C2_StopOnFailure ==
    demo = "autogen" =>
        \A i \in 1..Len(calls) :
            Failed(i) =>
                /\ i = Len(calls)
                /\ inflight = {}
                /\ RunFailed
                /\ pc \in {"run_raised", "exited"}

\* C2 witness: the call of the third stage failed and the run has failed
C2_Witness ==
    /\ demo = "autogen" /\ Len(calls) = 3 /\ Failed(3)
    /\ pc = "run_raised"

-----------------------------------------------------------------------------
(* C3 *)

\* C3 (conference workflow): no stage's call is issued twice; a run issues
\* at most 5 calls, exactly 5 when it completes and exactly k when it fails
\* at stage k.
C3_NoRetry ==
    demo = "autogen" =>
        /\ \A i, j \in 1..Len(calls) : calls[i].stage = calls[j].stage => i = j
        /\ Len(calls) <= 5
        /\ Completed => Len(calls) = 5
        /\ \A k \in 1..5 :
             (\E i \in 1..Len(calls) : Failed(i) /\ calls[i].stage = PipelineOrder[k])
                 => Len(calls) = k

\* C3 witness: a run that failed at its fourth stage and has ended
C3_Witness ==
    /\ demo = "autogen" /\ pc = "exited"
    /\ Len(calls) = 4 /\ Failed(4) /\ calls[4].stage = "logistics"

-----------------------------------------------------------------------------
(* C4 *)

-----------------------------------------------------------------------------
(* C5 *)

\* C5: a file exists only when all five generation calls of the run have
\* succeeded; a run in which a stage failed has written no file.
C5_NoFileOnFailure ==
    /\ DOMAIN files # {} =>
          /\ Len(calls) = 5
          /\ \A i \in 1..5 : Succeeded(i)
    /\ (\E i \in 1..Len(calls) : Failed(i)) => DOMAIN files = {}

\* C5 witness: a completed run of the travel demo has written its file
C5_Witness ==
    /\ demo = "crewai" /\ pc = "exited" /\ error = NoError
    /\ DOMAIN files = {CrewOutputFile(params)}

-----------------------------------------------------------------------------
(* C6 *)

\* C6 as stated: the error that reaches the caller of run carries the name
\* of the stage whose generation call failed, together with the cause.
C6_ErrorNamesStage ==
    demo = "autogen" =>
        \A i \in 1..Len(calls) :
            (Failed(i) /\ pc = "run_raised") =>
                /\ error.stage = calls[i].stage
                /\ error.msg = RaisedBy(calls[i].response).msg

\* C6 amended: the error that reaches the caller of run is the exception the
\* try block raised, unchanged: it carries the cause (class and message) and
\* no stage name. The stage is named on the console only, by the banner of
\* the phase, and the last line printed is "Error: " and the message.
C6_ErrorIsCauseOnly ==
    demo = "autogen" =>
        \A i \in 1..Len(calls) :
            (Failed(i) /\ pc = "run_raised") =>
                /\ error = RaisedBy(calls[i].response)
                /\ error.stage = ""
                /\ console[Len(console)] = "Error: " \o RaisedBy(calls[i].response).msg
                /\ console[Len(console) - 3] = PhaseBanner(calls[i].stage)

\* C6 witness: the client raised in the second stage and the error is on its
\* way to the caller of run
C6_Witness ==
    /\ demo = "autogen" /\ pc = "run_raised"
    /\ Len(calls) = 2 /\ calls[2].response.kind = "raise"
    /\ error.type = "APIError"

-----------------------------------------------------------------------------
(* C7 *)

\* C7: the stored outputs are, in pipeline order, one per stage whose call
\* has succeeded, each keyed by the stage name and equal to the content the
\* call returned; when all five calls succeeded these are the five stages.
C7_OutputsAreResponses ==
    demo = "autogen" =>
        LET n == Cardinality({i \in 1..Len(calls) : Succeeded(i)})
        IN /\ Len(outputs) = n
           /\ \A i \in 1..n :
                /\ Succeeded(i)
                /\ outputs[i] = [key |-> PipelineOrder[i],
                                 value |-> calls[i].response.content]
           /\ n = 5 => KeyOrder(outputs) = PipelineOrder

\* C7 witness: a completed run whose stages returned different texts
C7_Witness ==
    /\ demo = "autogen" /\ pc = "run_returned"
    /\ \A i \in 1..5 : Succeeded(i)
    /\ Get(outputs, "theme") = "t1" /\ Get(outputs, "speakers") = "t2"
    /\ Get(outputs, "marketing") = "t2"

-----------------------------------------------------------------------------
(* C8 *)

\* the earlier stages whose output each stage's prompt is said to carry
PromptSources(s) ==
    CASE s = "theme" -> {}
      [] s = "speakers" -> {"theme"}
      [] s = "schedule" -> {"theme", "speakers"}
      [] s = "logistics" -> {"theme", "schedule"}
      [] s = "marketing" -> {"theme", "schedule"}

\* C8 as stated: the request of stage i contains, verbatim, the stored output
\* of every stage before it.
C8_AllPriorOutputs ==
    demo = "autogen" =>
        \A i \in 1..Len(calls) : \A j \in 1..(i - 1) :
            outputs[j].value # None => Contains(calls[i].user, outputs[j].value)

\* C8 amended: the request of a stage contains, verbatim, the stored output
\* of the earlier stages its prompt names: theme for speakers; theme and
\* speakers for schedule; theme and schedule for logistics and for marketing.
C8_NamedPriorOutputs ==
    demo = "autogen" =>
        \A i \in 1..Len(calls) : \A k \in PromptSources(calls[i].stage) :
            /\ Has(outputs, k)
            /\ Get(outputs, k) # None => Contains(calls[i].user, Get(outputs, k))

\* C8 witness: the marketing request has been sent, carrying two different
\* texts for theme and schedule
C8_Witness ==
    /\ demo = "autogen" /\ Len(calls) = 5
    /\ Get(outputs, "theme") = "t1" /\ Get(outputs, "schedule") = "t2"
    /\ Contains(calls[5].user, "t1") /\ Contains(calls[5].user, "t2")

-----------------------------------------------------------------------------
(* C9 *)

\* the position of a stage in the pipeline
StageIndex(s) == CHOOSE j \in 1..5 : PipelineOrder[j] = s

\* C9: every read of self.outputs[key], while a prompt is built or the
\* summary rendered, finds the key stored: no KeyError is ever raised, each
\* phase about to build its prompt has the keys it reads, and these are
\* keys of stages strictly before it.
C9_NoMissingRead ==
    demo = "autogen" =>
        /\ error.type # "KeyError"
        /\ \A s \in {PipelineOrder[j] : j \in 1..5} :
             (pc = s /\ inflight = {}) =>
                 \A k \in 1..Len(PhaseReads(s)) :
                     /\ Has(outputs, PhaseReads(s)[k])
                     /\ StageIndex(PhaseReads(s)[k]) < StageIndex(s)
        /\ pc = "print_summary" =>
             \A k \in 1..Len(Sections) : Has(outputs, Sections[k].key)

\* C9 witness: every phase has built its prompt and the summary has been
\* rendered
C9_Witness ==
    /\ demo = "autogen" /\ pc = "run_returned" /\ error = NoError
    /\ Len(calls) = 5

-----------------------------------------------------------------------------
(* C10 *)

\* C10: a stored output is never changed or removed by a later step.
C10_NeverMutated ==
    [][\A i \in 1..Len(outputs) :
          /\ i <= Len(outputs')
          /\ outputs'[i] = outputs[i]]_vars

\* C10 witness: all five outputs are stored and the summary printer and the
\* file writer have run after them
C10_Witness ==
    /\ demo = "autogen" /\ pc = "exited"
    /\ Len(outputs) = 5 /\ DOMAIN files # {}

-----------------------------------------------------------------------------
(* C11 *)

\* C11: when configuration validation fails, the process exits with code 1
\* before any stage runs: no generation call is issued, no stage output is
\* stored and no file is written.
C11_FailFastOnConfig ==
    ~configValid =>
        /\ pc \in {"main", "exited"}
        /\ pc = "exited" => exitCode = 1
        /\ calls = <<>> /\ inflight = {}
        /\ outputs = <<>> /\ tasks = <<>>
        /\ DOMAIN files = {}

\* C11 witness: the travel demo has exited with code 1 on an invalid
\* configuration
C11_Witness ==
    /\ demo = "crewai" /\ ~configValid /\ ~ArgsRaise(argv)
    /\ pc = "exited" /\ exitCode = 1

-----------------------------------------------------------------------------
(* C12 *)

\* C12: the process ends with exit code 1 when a stage's generation call
\* failed and with exit code 0 when the run succeeded.
C12_ExitCodes ==
    pc = "exited" =>
        /\ (\E i \in 1..Len(calls) : Failed(i)) => exitCode = 1
        /\ (Len(calls) = 5 /\ error = NoError) => exitCode = 0

-----------------------------------------------------------------------------
(* C13 *)

\* the heading the rendered document gives each stage
StageTitle(s) ==
    CASE s = "theme" -> "THEME & VISION"
      [] s = "speakers" -> "SPEAKERS & TOPICS"
      [] s = "schedule" -> "CONFERENCE SCHEDULE"
      [] s = "logistics" -> "LOGISTICS PLAN"
      [] s = "marketing" -> "MARKETING STRATEGY"

\* print_summary has gone through its console loop
SummaryPrinted ==
    /\ Len(calls) = 5 /\ Succeeded(5)
    /\ pc \in {"run_returned", "run_raised", "exited"}

\* the console shows, from entry `from` on, one section per stage in pipeline
\* order: the heading between two rules, then the stored output
ConsoleSectionsAt(from) ==
    /\ Len(console) >= from + 19
    /\ \A i \in 1..5 :
         LET at == from + 4 * (i - 1)
         IN /\ console[at] = "\n" \o Dash80
            /\ console[at + 1] = StageTitle(PipelineOrder[i])
            /\ console[at + 2] = Dash80
            /\ console[at + 3] = outputs[i].value

\* a file holds, after its header of 7 chunks, one section per stage in
\* pipeline order: the heading between two rules, then the stored output
FileSections(chunks) ==
    /\ Len(chunks) = 7 + 20
    /\ \A i \in 1..5 :
         LET at == 7 + 4 * (i - 1) + 1
         IN /\ chunks[at] = "\n" \o Dash80 \o "\n"
            /\ chunks[at + 1] = StageTitle(PipelineOrder[i]) \o "\n"
            /\ chunks[at + 2] = Dash80 \o "\n"
            /\ chunks[at + 3] = outputs[i].value \o "\n"

\* C13: the rendered document has exactly one section per stage, in pipeline
\* order, each a heading followed by the stage's stored output verbatim, on
\* the console and in the written file alike.
C13_OneSectionPerStage ==
    demo = "autogen" =>
        /\ SummaryPrinted => \E from \in 1..Len(console) : ConsoleSectionsAt(from)
        /\ \A path \in DOMAIN files : FileSections(files[path])

-----------------------------------------------------------------------------
(* C14 *)

\* the document print_summary writes when it renders outputs d at time t
Document(d, p, t) == FileHeader(p, t) \o SectionWrites(d, Len(Sections))

\* the run has written its complete document
DocumentWritten ==
    /\ demo = "autogen" /\ error = NoError
    /\ pc \in {"run_returned", "exited"} /\ Len(outputs) = 5

-----------------------------------------------------------------------------
(* C15 *)

RECURSIVE Text(_)
\* the text a file holds after the chunks were written to it in order
Text(chunks) == IF chunks = <<>> THEN "" ELSE Head(chunks) \o Text(Tail(chunks))

RECURSIVE Printed(_)
\* the text the console shows after print() was called with each line in order
Printed(lines) == IF lines = <<>> THEN "" ELSE Head(lines) \o "\n" \o Printed(Tail(lines))

\* the travel run has written its report
ReportWritten == demo = "crewai" /\ error = NoError /\ pc = "exited" /\ DOMAIN files # {}

\* C15 as stated: the content of the file written by a successful run equals
\* the document the run rendered (printed) for that run.
C15_FileIsRendered ==
    (DocumentWritten \/ ReportWritten) =>
        \A path \in DOMAIN files :
            \E from \in 1..Len(console) : \E to \in from..Len(console) :
                Text(files[path]) = Printed(SubSeq(console, from, to))

\* C15 amended: the plan part of the written file (all sections, or the final
\* report between its rules) is character for character what the run printed
\* for it; the header block of the file is not printed anywhere.
C15_PlanPartIsRendered ==
    /\ DocumentWritten =>
         \A path \in DOMAIN files :
            /\ \E from \in 1..Len(console) :
                  /\ from + 19 <= Len(console)
                  /\ Text(SubSeq(files[path], 8, 27))
                       = Printed(SubSeq(console, from, from + 19))
            /\ \A i \in 1..Len(console) : console[i] \o "\n" # files[path][4]
    /\ ReportWritten =>
         \A path \in DOMAIN files :
            /\ \E from \in 1..Len(console) :
                  /\ from + 2 <= Len(console)
                  /\ Text(SubSeq(files[path], 21, 23))
                       = Printed(SubSeq(console, from, from + 2))
            /\ \A i \in 1..Len(console) : console[i] \o "\n" # files[path][12]

\* C15 witness: a conference run that printed its plan and wrote its file
C15_Witness ==
    /\ DocumentWritten /\ pc = "exited" /\ exitCode = 0
    /\ DOMAIN files # {}
    /\ \E i \in 1..Len(console) : console[i] = "FULL CONFERENCE PLAN - ALL COMPONENTS"

-----------------------------------------------------------------------------
(* C16 *)

\* the step is a successful run writing its document
WritesDocument ==
    \/ demo = "autogen" /\ pc = "print_summary" /\ pc' = "run_returned"
    \/ demo = "crewai" /\ pc = "report" /\ pc' = "exited"

\* C16: a successful run writes its document to a new file: the path did not
\* exist before, and every file of a prior run is still there, unchanged.
C16_NewFilePerRun ==
    [][WritesDocument =>
          /\ \E path \in DOMAIN files' : path \notin DOMAIN files
          /\ \A path \in DOMAIN files :
                path \in DOMAIN files' /\ files'[path] = files[path]]_vars

-----------------------------------------------------------------------------
(* C17 *)

\* the stage outputs held in memory are the contents the calls came back with
OutputsIntact ==
    IF demo = "autogen"
    THEN /\ Len(outputs) = Len(calls)
         /\ \A i \in 1..Len(calls) :
               outputs[i] = [key |-> calls[i].stage, value |-> calls[i].response.content]
    ELSE /\ Len(tasks) = Len(calls)
         /\ \A i \in 1..Len(calls) : tasks[i].output = calls[i].response.content

\* C17: when writing the output file failed with an I/O error, the error
\* reaches the caller of the operation that ran the pipeline (run(), main()):
\* it leaves that operation as an exception, so the travel script, which has
\* no handler around main(), ends with a non-zero exit code; and the stage
\* outputs in memory are as they were.
C17_WriteErrorSurfaced ==
    error.type = "OSError" =>
        /\ OutputsIntact
        /\ demo = "autogen" => pc \in {"run_raised", "exited"}
        /\ demo = "crewai" => pc # "crew_raised" /\ (pc = "exited" => exitCode # 0)

-----------------------------------------------------------------------------
(* C20 *)

\* C20: when the crew hands the marketing task to its agent, the task's
\* context lists the four previous tasks (flight, hotel, itinerary, budget).
C20_MarketingContext ==
    (demo = "crewai" /\ Len(calls) = 5) =>
        /\ calls[5].stage = "marketing"
        /\ tasks[5].context.tasks = <<"flight", "hotel", "itinerary", "budget">>

-----------------------------------------------------------------------------
(* C19 *)

\* the parameters of each demo, in the order of their declaration
ParamOrder ==
    IF demo = "autogen"
    THEN <<"conference_name", "conference_type", "duration">>
    ELSE <<"destination", "trip_duration", "trip_dates", "departure_city",
           "travelers", "budget_preference">>

\* the parameters of the travel demo, in the order of the arguments
ArgOrder ==
    <<"destination", "trip_duration", "departure_city", "trip_dates",
      "travelers", "budget_preference">>

\* the default value of each parameter
Defaults == IF demo = "autogen" THEN AutogenParams ELSE DefaultKwargs

\* the value an argument gives to a parameter: the number of travelers is
\* an integer, everything else is the argument as typed
ArgValue(name, arg) ==
    IF name = "travelers" /\ IsInt(arg) THEN ParseInt(arg) ELSE arg

\* the script has handed its parameters to the workflow / to main()
Started == pc # "main"

\* C19 as stated: in each demo the n-th argument, when present, replaces the
\* n-th parameter, and a parameter without an argument keeps its default.
C19_NthArgNthParam ==
    (Started /\ ~ArgsRaise(argv)) =>
        \A n \in 1..Len(ParamOrder) :
            params[ParamOrder[n]] =
                IF n <= Len(argv) THEN ArgValue(ParamOrder[n], argv[n])
                ELSE Defaults[ParamOrder[n]]

\* C19 amended: only the travel demo reads its command line. Its arguments 1
\* to 6 replace destination, trip_duration, departure_city, trip_dates,
\* travelers (as an integer) and budget_preference, in this order, which is
\* not the order of main's parameters; a parameter without an argument keeps
\* its default, and the tasks are created from these values. A fifth argument
\* that is not an integer ends the script with exit code 1 before main() is
\* called. The conference demo ignores its arguments.
C19_TravelArgsInArgOrder ==
    Started =>
        /\ demo = "autogen" => params = AutogenParams
        /\ (demo = "crewai" /\ ~ArgsRaise(argv)) =>
              /\ \A n \in 1..Len(ArgOrder) :
                    params[ArgOrder[n]] =
                        IF n <= Len(argv) THEN ArgValue(ArgOrder[n], argv[n])
                        ELSE DefaultKwargs[ArgOrder[n]]
              /\ tasks # <<>> =>
                    /\ tasks[1].description[2] =
                          (IF Len(argv) >= 3 THEN argv[3] ELSE "New York")
                    /\ tasks[1].description[6] =
                          (IF Len(argv) >= 4 THEN argv[4] ELSE "January 15-20, 2026")
        /\ (demo = "crewai" /\ ArgsRaise(argv)) =>
              /\ pc = "exited" /\ exitCode = 1
              /\ error.type = "ValueError"
              /\ calls = <<>> /\ tasks = <<>>

\* C19 witness: the travel demo was started with four arguments and has
\* created its tasks
C19_Witness ==
    /\ demo = "crewai" /\ Len(argv) = 4 /\ argv[1] = "Norway"
    /\ pc = "kickoff" /\ tasks # <<>>
    /\ params.departure_city = "Los Angeles"
    /\ params.travelers = 2

-----------------------------------------------------------------------------
(* C18 *)

\* the position of the conference run on its path: 0 not started, 1..5 the
\* stage that is running, 6 the summary is being printed and saved,
\* 7 completed (run() returned), 8 failed (an exception left run()); -1 in
\* the travel demo
RunState ==
    CASE pc \in {"main", "run"} -> 0
      [] pc \in {RunOrder[i] : i \in 1..Len(RunOrder)} -> StageIndex(pc)
      [] pc = "print_summary" -> 6
      [] pc = "run_returned" -> 7
      [] pc = "run_raised" -> 8
      [] pc = "exited" -> IF error # NoError THEN 8
                          ELSE IF exitCode = 0 THEN 7 ELSE 0
      [] OTHER -> -1

\* the steps along the one path, the summary step included
ForwardStep ==
    \/ RunState = 0 /\ RunState' = 1
    \/ /\ RunState \in 1..4 /\ RunState' = RunState + 1
       /\ Len(outputs') = RunState /\ outputs'[RunState].key = pc
    \/ /\ RunState = 5 /\ RunState' = 6
       /\ Len(outputs') = 5 /\ outputs'[5].key = pc
    \/ RunState = 6 /\ RunState' = 7

\* C18 as stated: the run moves only forward along the one path, it fails
\* only from a state in which a stage is running, completed and failed are
\* never left, and every run that was started ends completed or failed.
C18_FailureFromRunningOnly ==
    /\ [][demo = "autogen" =>
            \/ RunState' = RunState
            \/ ForwardStep
            \/ RunState \in 1..5 /\ RunState' = 8]_vars
    /\ (demo = "autogen" /\ configValid) ~> (RunState \in {7, 8})

\* C18 amended: the path has one more step: after stage 5, run() prints the
\* summary and saves the file before it returns, and this step has a failure
\* exit of its own (the file cannot be written, or a stored output is not a
\* text). Otherwise as stated: forward only, one stage after the other with
\* its output stored, completed and failed never left, and every started run
\* ends in one of them.
C18_LinearPathWithSummary ==
    /\ [][demo = "autogen" =>
            \/ RunState' = RunState
            \/ ForwardStep
            \/ RunState \in 1..6 /\ RunState' = 8]_vars
    /\ (demo = "autogen" /\ configValid) ~> (RunState \in {7, 8})

\* C18 witness: all five stages returned and the run failed in the summary step
C18_Witness ==
    /\ demo = "autogen" /\ RunState = 8
    /\ Len(calls) = 5 /\ Succeeded(5) /\ Len(outputs) = 5
    /\ error.type = "OSError"

-----------------------------------------------------------------------------
(* C21 *)

\* C21: over any sequence of run() calls on one workflow instance, no step
\* removes an entry of self.outputs or moves it, a step adds at most one
\* entry, and an entry's value changes only when the phase of its key stores
\* its output; so in a later run that failed at stage k the entries of
\* stages 1..k-1 are that run's outputs and all entries of earlier runs are
\* still in the mapping.
C21_OutputsNeverReset ==
    /\ [][/\ Len(outputs) <= Len(outputs') /\ Len(outputs') <= Len(outputs) + 1
          /\ \A i \in 1..Len(outputs) :
                /\ outputs'[i].key = outputs[i].key
                /\ outputs'[i].value # outputs[i].value =>
                      pc = outputs[i].key /\ inflight # {}]_vars
    /\ [](\A k \in 1..Len(calls) :
            (runs >= 2 /\ Failed(k)) =>
                /\ \A i \in 1..(k - 1) :
                      /\ Has(outputs, calls[i].stage)
                      /\ Get(outputs, calls[i].stage) = calls[i].response.content
                /\ Len(outputs) >= k - 1)

\* C21 witness: the first run stored all five outputs, the second run failed
\* at stage 3 after storing new outputs for stages 1 and 2, and the mapping
\* still has the five entries
C21_Witness ==
    /\ runs = 2 /\ pc = "run_raised"
    /\ Len(calls) = 3 /\ Failed(3)
    /\ KeyOrder(outputs) = RunOrder
    /\ outputs[1].value = calls[1].response.content
    /\ outputs[2].value = calls[2].response.content

-----------------------------------------------------------------------------
(* C22 *)

\* the location the claim gives for a destination
ClaimedLocation(d) ==
    CASE Lower(d) = "iceland" -> "Reykjavik"
      [] Lower(d) = "france" -> "Paris"
      [] Lower(d) = "japan" -> "Tokyo"
      [] OTHER -> d

\* C22: create_hotel_agent and create_hotel_task derive the same hotel
\* location for every destination: Reykjavik, Paris or Tokyo for iceland,
\* france or japan in any case, the destination itself otherwise; the goal of
\* the hotel agent and the description of the hotel task name this location.
C22_SameHotelLocation ==
    /\ \A d \in Destinations :
          /\ HotelAgentLocation(d) = ClaimedLocation(d)
          /\ HotelTaskLocation(d) = ClaimedLocation(d)
    /\ (demo = "crewai" /\ tasks # <<>>) =>
          /\ tasks[2].name = "hotel"
          /\ tasks[2].goal[2] = ClaimedLocation(params.destination)
          /\ tasks[2].description[4] = ClaimedLocation(params.destination)
          /\ tasks[2].goal[2] = tasks[2].description[4]

\* C22 witness: the tasks were created for a destination typed in capitals,
\* and the hotel task names the capital city
C22_Witness ==
    /\ demo = "crewai" /\ tasks # <<>>
    /\ params.destination = "FRANCE"
    /\ tasks[2].description[4] = "Paris"

====
